---- MODULE Spec2Model ----
(***************************************************************************)
(* The delegated-credential lifecycle of Capital-Planning-Agent:           *)
(*   - the mock OIDC issuer (src/oidc_server): authorization codes, the    *)
(*     code grant and the refresh grant with rotation;                     *)
(*   - the MCP broker (src/mcp_server): the TokenManager session store,    *)
(*     the heartbeat that refreshes every session, and the request path    *)
(*     of the API client.                                                  *)
(* Time is the wall clock in whole seconds.  A JWT is a deterministic      *)
(* function of its payload (RS256 over a fixed key and header), so a token *)
(* value is modelled by the payload fields that vary: type, sub and iat.   *)
(***************************************************************************)
EXTENDS Integers, Sequences, FiniteSets, TLC

\* ---------------------------------------------------------------- bounds
MaxTicks == 2
MaxCodes == 2
MaxRecords == 3
MaxBeats == 1
MaxSessions == 3
MaxHolderGrants == 1
MaxDeletes == 1
MaxRotationTicks == 10

\* ------------------------------------------------------ program constants
ACCESS_TOKEN_LIFETIME == 10
REFRESH_TOKEN_LIFETIME == 30
ROTATE_REFRESH_TOKENS == TRUE
CODE_LIFETIME == 60
JWT_LEEWAY == 10
CLIENT_ID == "capital-planning-client"
OIDC_CLIENT_ID == "capital-planning-client"
TOKEN_REFRESH_HEARTBEAT_SECONDS == 25
DEFAULT_EXPIRES_IN == 1
DEFAULT_REFRESH_EXPIRES_IN == 3600
FALLBACK_EXPIRES_IN == 300
FALLBACK_REFRESH_EXPIRES_IN == 30

TOOL_SCOPE_REQUIREMENTS ==
  [ capital_get_assets           |-> {"assets:read"},
    capital_get_asset            |-> {"assets:read"},
    capital_analyze_risk         |-> {"risk:analyze"},
    capital_optimize_investments |-> {"investments:write"} ]

USERS ==
  [ admin_user   |-> [sub |-> "admin_user",
                      scopes |-> {"assets:read", "risk:analyze", "investments:write"}],
    limited_user |-> [sub |-> "limited_user",
                      scopes |-> {"assets:read"}] ]

Usernames == DOMAIN USERS

\* The seconds the clock may jump in one step: the next second, past a
\* refresh record's expiry, and to the end of a refresh JWT's leeway.
TimeSteps == {1, REFRESH_TOKEN_LIFETIME + 1, REFRESH_TOKEN_LIFETIME + JWT_LEEWAY}

NoToken == [typ |-> "none", sub |-> "", scopes |-> {}, iat |-> 0]
Garbage == [typ |-> "garbage", sub |-> "", scopes |-> {}, iat |-> 0]
NoParent == 0

VARIABLES
  now,                   \* the wall clock, in seconds
  ticks,                 \* how many times the clock has advanced
  auth_codes,            \* code -> [sub, expires, used]
  refresh_tokens_store,  \* refresh token value -> TokenRecord
  nextId,                \* the next value secrets.token_urlsafe hands out
  resp,                  \* the issuer's answer, when this step was a request to it
  issued,                \* history: every TokenRecord ever minted [id, token, parent]
  returned,              \* history: every token value ever returned to a client
  rotate,                \* ROTATE_REFRESH_TOKENS as config.py sets it
  sessions,              \* TokenManager._sessions: session_id -> TokenSession
  detached,              \* TokenSession objects deleted from _sessions that the
                         \* running cycle's snapshot still references
  nextSid,               \* the next session_id secrets.token_urlsafe hands out
  active_session_id,     \* SessionManager._active_session_id (NoSession for None)
  hbPc,                  \* the heartbeat task: "sleep", "await" (a refresh in flight)
                         \* or "done" (the task has finished)
  hbCancel,              \* _heartbeat_task.cancel(): "none", "requested" (called, the
                         \* CancelledError not yet thrown into the task) or "delivered"
  hbSleepStart,          \* when the heartbeat's current sleep began
  hbQueue,               \* the cycle's snapshot still to refresh, head in flight
  inflight,              \* refresh requests posted and not yet answered to the broker
  stats,                 \* refresh_all_sessions' stats dictionary
  hbSnap,                \* history: the session ids snapshotted at cycle start
  hbAttempted,           \* history: the session ids posted in this cycle
  hbThen,                \* history: the cycle's start, as RevokedHolders and holderGrants
  hbInterval,            \* TOKEN_REFRESH_HEARTBEAT_SECONDS as the environment set it
  holderGrants           \* how many refresh grants token holders made directly

issuerData == <<auth_codes, refresh_tokens_store, nextId, issued, returned, rotate>>
issuerVars == <<issuerData, resp>>
storeVars == <<sessions, detached, nextSid, active_session_id>>
hbVars == <<hbPc, hbCancel, hbSleepStart, hbQueue, inflight, stats, hbSnap, hbAttempted, hbThen, hbInterval>>
brokerVars == <<storeVars, hbVars>>
vars == <<now, ticks, issuerVars, brokerVars, holderGrants>>

\* ------------------------------------------------------------ TokenSigner

Lifetime(typ) == IF typ = "refresh" THEN REFRESH_TOKEN_LIFETIME ELSE ACCESS_TOKEN_LIFETIME

\* The signer that writes every scope there is into an access token.
create_access_token_all_scopes(sub, scopes, t) ==
  [typ |-> "access", sub |-> sub, scopes |-> UNION {USERS[u].scopes : u \in Usernames}, iat |-> t]

\* JWTManager.create_access_token: the payload carries the sub and the scopes
\* it is called with, and no token_type.
create_access_token(sub, scopes, t) ==
  [typ |-> "access", sub |-> sub, scopes |-> scopes, iat |-> t]

\* The rotation that does not extend: every refresh token carries the iat,
\* and so the exp, of the servers' start.
create_refresh_token_backdated(sub, scopes, t) ==
  [typ |-> "refresh", sub |-> sub, scopes |-> scopes, iat |-> 0]

\* JWTManager.create_refresh_token: iat = int(now.timestamp()), exp = iat + lifetime.
create_refresh_token(sub, scopes, t) ==
  [typ |-> "refresh", sub |-> sub, scopes |-> scopes, iat |-> t]

Exp(tok) == tok.iat + Lifetime(tok.typ)

\* JWTManager.verify_token: None for a bad signature and for exp <= now - leeway.
verify_token(tok, t) ==
  /\ tok.typ \in {"access", "refresh"}
  /\ ~(Exp(tok) <= t - JWT_LEEWAY)

\* datetime.now() > deadline, both carrying microseconds: within the deadline's
\* own second the answer depends on the sub-second parts (late).
Past(t, deadline, late) == t > deadline \/ (t = deadline /\ late)

\* ----------------------------------------------------------------- issuer

Put(f, k, v) == [x \in DOMAIN f \cup {k} |-> IF x = k THEN v ELSE f[x]]

\* What the issuer answered: the endpoint, the code or refresh token presented,
\* the HTTP status and detail, and the tokens of a TokenResponse.
Response(op, code, presented, status, detail, at, rt) ==
  [op |-> op, code |-> code, presented |-> presented, status |-> status,
   detail |-> detail, access_token |-> at, refresh_token |-> rt]

Error(op, code, presented, status, detail) ==
  Response(op, code, presented, status, detail, NoToken, NoToken)

NoResponse == Error("none", 0, NoToken, 0, "")

\* The issuer's state as one value I: a handler maps the state it finds, its
\* inputs and the clock to the state it leaves, I.resp being its answer.
Issuer ==
  [auth_codes |-> auth_codes, refresh_tokens_store |-> refresh_tokens_store,
   nextId |-> nextId, issued |-> issued, returned |-> returned, rotate |-> rotate,
   resp |-> resp]

Becomes(I) ==
  /\ auth_codes' = I.auth_codes
  /\ refresh_tokens_store' = I.refresh_tokens_store
  /\ nextId' = I.nextId
  /\ issued' = I.issued
  /\ returned' = I.returned
  /\ rotate' = I.rotate
  /\ resp' = I.resp

\* A step in which the issuer receives no request.
IssuerIdle == resp' = NoResponse /\ UNCHANGED issuerData

\* SessionManager._active_session_id = None
NoSession == 0

\* The servers have started; the heartbeat task sleeps its first interval,
\* which config.py reads from the environment (25 unless it is set).
StartedWith(interval, rotation) ==
  /\ now = 0
  /\ ticks = 0
  /\ auth_codes = << >>
  /\ refresh_tokens_store = << >>
  /\ nextId = 1
  /\ resp = NoResponse
  /\ issued = {}
  /\ returned = {}
  /\ rotate = rotation
  /\ sessions = << >>
  /\ detached = << >>
  /\ nextSid = 1
  /\ active_session_id = NoSession
  /\ hbInterval = interval
  /\ hbPc = "sleep"
  /\ hbCancel = "none"
  /\ hbSleepStart = 0
  /\ hbQueue = << >>
  /\ inflight = << >>
  /\ stats = [total_sessions |-> 0, refreshed |-> 0, failed |-> 0, errors |-> << >>]
  /\ hbSnap = << >>
  /\ hbAttempted = << >>
  /\ hbThen = [revoked |-> {}, grants |-> 0]
  /\ holderGrants = 0

\* The servers started as config.py ships: refresh tokens are rotated.
Started(interval) == StartedWith(interval, ROTATE_REFRESH_TOKENS)

Init == Started(TOKEN_REFRESH_HEARTBEAT_SECONDS)

\* The clock advances by d seconds.
Tick(d) ==
  /\ now' = now + d
  /\ ticks' = ticks + 1
  /\ IssuerIdle
  /\ UNCHANGED <<storeVars, hbVars, holderGrants>>

\* GET /authorize: the code is a fresh secrets.token_urlsafe value, modelled
\* by its place in auth_codes.
authorize(I, username, password_ok, client_id, t) ==
  IF client_id # CLIENT_ID
    THEN [I EXCEPT !.resp = Error("authorize", 0, NoToken, 400, "Invalid client_id")]
  ELSE IF username \notin Usernames \/ ~password_ok
    THEN [I EXCEPT !.resp = Error("authorize", 0, NoToken, 401, "Invalid credentials")]
  ELSE [I EXCEPT
          !.auth_codes = Append(@, [sub |-> USERS[username].sub,
                                    scopes |-> USERS[username].scopes,
                                    expires |-> t + CODE_LIFETIME, used |-> FALSE]),
          !.resp = Error("authorize", Len(I.auth_codes) + 1, NoToken, 200, "")]

TokenRecord(id, sub, scopes, expires, revoked, parent) ==
  [id |-> id, sub |-> sub, scopes |-> scopes, expires |-> expires, revoked |-> revoked,
   parent |-> parent]

\* The exchange that forgets to mark its code.
mark_used_skipped(codes, code) == codes

\* code_data["used"] = True
mark_used(codes, code) == [codes EXCEPT ![code].used = TRUE]

\* handle_authorization_code_grant
handle_authorization_code_grant(I, code, t, late) ==
  IF code = 0 \/ code \notin DOMAIN I.auth_codes
    THEN [I EXCEPT !.resp = Error("code", code, NoToken, 400, "Invalid authorization code")]
  ELSE IF I.auth_codes[code].used
    THEN [I EXCEPT !.resp = Error("code", code, NoToken, 400, "Authorization code already used")]
  ELSE IF Past(t, I.auth_codes[code].expires, late)
    THEN [I EXCEPT !.resp = Error("code", code, NoToken, 400, "Authorization code expired")]
  ELSE LET sub == I.auth_codes[code].sub
           scopes == I.auth_codes[code].scopes
           access_token == create_access_token(sub, scopes, t)
           refresh_token == create_refresh_token(sub, scopes, t)
       IN [I EXCEPT
             !.auth_codes = mark_used(@, code),
             !.refresh_tokens_store = Put(@, refresh_token,
                 TokenRecord(I.nextId, sub, scopes, t + REFRESH_TOKEN_LIFETIME, FALSE,
                             NoParent)),
             !.nextId = @ + 1,
             !.issued = @ \cup {[id |-> I.nextId, token |-> refresh_token, parent |-> NoParent]},
             !.returned = @ \cup {access_token, refresh_token},
             !.resp = Response("code", code, NoToken, 200, "", access_token, refresh_token)]

\* The reuse detection that revokes the whole chain, as the handler's comment
\* announces: every record of the replayed token's subject is revoked.
reuse_detected_revoking_chain(store, refresh_token) ==
  [tok \in DOMAIN store |->
     IF store[tok].sub = store[refresh_token].sub
       THEN [store[tok] EXCEPT !.revoked = TRUE]
       ELSE store[tok]]

\* The reuse detection that drops the replayed token's record from the store.
reuse_detected_forgetting(store, refresh_token) ==
  [tok \in DOMAIN store \ {refresh_token} |-> store[tok]]

\* The revoked branch of handle_refresh_token_grant: it prints a warning and
\* raises; the store stays as it is.
reuse_detected(store, refresh_token) == store

\* handle_refresh_token_grant
handle_refresh_token_grant(I, refresh_token, t, late) ==
  IF refresh_token = NoToken
    THEN [I EXCEPT !.resp = Error("refresh", 0, refresh_token, 400, "Missing refresh_token")]
  ELSE IF ~verify_token(refresh_token, t) \/ refresh_token.typ # "refresh"
    THEN [I EXCEPT !.resp = Error("refresh", 0, refresh_token, 401, "Invalid refresh token")]
  ELSE IF refresh_token \notin DOMAIN I.refresh_tokens_store
    THEN [I EXCEPT !.resp = Error("refresh", 0, refresh_token, 401, "Unknown refresh token")]
  ELSE IF I.refresh_tokens_store[refresh_token].revoked
    THEN [I EXCEPT
            !.refresh_tokens_store = reuse_detected(@, refresh_token),
            !.resp = Error("refresh", 0, refresh_token, 401, "Refresh token has been revoked")]
  ELSE IF Past(t, I.refresh_tokens_store[refresh_token].expires, late)
    THEN [I EXCEPT !.resp = Error("refresh", 0, refresh_token, 401, "Refresh token expired")]
  ELSE LET token_data == I.refresh_tokens_store[refresh_token]
           revoked_store == [I.refresh_tokens_store EXCEPT ![refresh_token].revoked = TRUE]
           access_token == create_access_token(token_data.sub, token_data.scopes, t)
           new_refresh_token == create_refresh_token(token_data.sub, token_data.scopes, t)
       IN IF I.rotate
            THEN [I EXCEPT
                    !.refresh_tokens_store = Put(revoked_store, new_refresh_token,
                        TokenRecord(I.nextId, token_data.sub, token_data.scopes,
                                    t + REFRESH_TOKEN_LIFETIME,
                                    FALSE, token_data.id)),
                    !.nextId = @ + 1,
                    !.issued = @ \cup {[id |-> I.nextId, token |-> new_refresh_token,
                                        parent |-> token_data.id]},
                    !.returned = @ \cup {access_token, new_refresh_token},
                    !.resp = Response("refresh", 0, refresh_token, 200, "",
                                      access_token, new_refresh_token)]
            ELSE [I EXCEPT
                    !.refresh_tokens_store =
                        [revoked_store EXCEPT ![refresh_token].revoked = FALSE,
                           ![refresh_token].expires = t + REFRESH_TOKEN_LIFETIME],
                    !.returned = @ \cup {access_token},
                    !.resp = Response("refresh", 0, refresh_token, 200, "",
                                      access_token, refresh_token)]

\* POST /token
token(I, grant_type, code, refresh_token, client_id, t, late) ==
  IF client_id # CLIENT_ID
    THEN [I EXCEPT !.resp = Error("token", 0, NoToken, 400, "Invalid client_id")]
  ELSE IF grant_type = "authorization_code"
    THEN handle_authorization_code_grant(I, code, t, late)
  ELSE IF grant_type = "refresh_token"
    THEN handle_refresh_token_grant(I, refresh_token, t, late)
  ELSE [I EXCEPT !.resp = Error("token", 0, NoToken, 400, "Unsupported grant_type")]

\* ----------------------------------------------------------- SessionStore

Never == -1

RemoveKey(f, k) == [x \in DOMAIN f \ {k} |-> f[x]]

\* models.TokenSession: last_refreshed_at defaults to None, refresh_count to 0.
TokenSession(user_id, scopes, access_token, access_expires, refresh_token, refresh_expires, created_at) ==
  [user_id |-> user_id, scopes |-> scopes,
   access_token |-> access_token, access_token_expires_at |-> access_expires,
   refresh_token |-> refresh_token, refresh_token_expires_at |-> refresh_expires,
   created_at |-> created_at, last_refreshed_at |-> Never, refresh_count |-> 0]

\* The TokenSession object a session id names: in _sessions, or deleted from
\* it while the running cycle's snapshot still holds it.
Obj(sid) == IF sid \in DOMAIN sessions THEN sessions[sid] ELSE detached[sid]


\* TokenManager.create_session
create_session(access_token, refresh_token, expires_in, refresh_expires_in, scopes, user_id) ==
  /\ sessions' = Put(sessions, nextSid,
       TokenSession(user_id, scopes, access_token, now + expires_in,
                    refresh_token, now + refresh_expires_in, now))
  /\ nextSid' = nextSid + 1
  /\ UNCHANGED <<detached, active_session_id>>

\* x or d, for an Optional[int] request field (0 stands for None)
OrDefault(x, d) == IF x = 0 THEN d ELSE x

\* POST /sessions
rest_create_session(access_token, refresh_token, expires_in, refresh_expires_in, scopes, user_id) ==
  create_session(access_token, refresh_token,
                 OrDefault(expires_in, DEFAULT_EXPIRES_IN),
                 OrDefault(refresh_expires_in, DEFAULT_REFRESH_EXPIRES_IN),
                 scopes, user_id)

\* TokenManager.get_session: the session, or None (the empty set).
get_session(ss, sid) == {ss[x] : x \in DOMAIN ss \cap {sid}}

\* The delete that answers True whatever it is asked to delete.
delete_from_always_true(ss, sid) ==
  [deleted |-> TRUE, sessions |-> [x \in DOMAIN ss \ {sid} |-> ss[x]]]

\* TokenManager.delete_session on the store ss: what it returns and the store
\* it leaves.
delete_from(ss, sid) ==
  IF sid \in DOMAIN ss
    THEN [deleted |-> TRUE, sessions |-> RemoveKey(ss, sid)]
    ELSE [deleted |-> FALSE, sessions |-> ss]

\* models.SessionResponse, the body POST /sessions and the activation answer
\* with (the message is a fixed text).
SessionResponse(session_id, user_id, scopes) == [session_id |-> session_id, user_id |-> user_id, scopes |-> scopes]

\* What POST /sessions returns for a request: the new id, and the user and
\* scopes of the request.
rest_create_response(access_token, refresh_token, expires_in, refresh_expires_in, scopes, user_id) ==
  SessionResponse(nextSid, user_id, scopes)

\* What POST /sessions/{id}/activate returns: 404 naming the id, or the
\* session's user and scopes.
activate_response(sid) ==
  IF get_session(sessions, sid) = {}
    THEN [status |-> 404, body |-> SessionResponse(sid, "", {})]
    ELSE [status |-> 200,
          body |-> SessionResponse(sid, sessions[sid].user_id, sessions[sid].scopes)]

\* max(0, seconds)
Remaining(seconds) == IF seconds < 0 THEN 0 ELSE seconds

\* TokenManager.get_session_stats on the store ss, which GET /sessions/{id}
\* and the capital_session_info tool return.
get_session_stats(ss, sid, t) ==
  IF sid \notin DOMAIN ss
    THEN [error |-> "Session not found"]
    ELSE [session_id |-> sid,
          user_id |-> ss[sid].user_id,
          scopes |-> ss[sid].scopes,
          access_token_expires_in_seconds |-> Remaining(ss[sid].access_token_expires_at - t),
          refresh_token_expires_in_seconds |-> Remaining(ss[sid].refresh_token_expires_at - t),
          refresh_count |-> ss[sid].refresh_count,
          created_at |-> ss[sid].created_at,
          last_refreshed_at |-> ss[sid].last_refreshed_at]

\* TokenManager.delete_session.  A cycle that snapshotted the session keeps
\* its object until it is done with it.
delete_session(sid) ==
  /\ sessions' = delete_from(sessions, sid).sessions
  /\ detached' = IF /\ delete_from(sessions, sid).deleted
                    /\ \E k \in 1 .. Len(hbQueue) : hbQueue[k] = sid
                   THEN Put(detached, sid, sessions[sid])
                   ELSE detached
  /\ UNCHANGED nextSid

\* SessionManager.set_active_session, as POST /sessions/{id}/activate calls
\* it: an unknown session raises (404) and the active session stays.
set_active_session(sid) ==
  active_session_id' = IF get_session(sessions, sid) = {} THEN active_session_id ELSE sid

\* The delete that leaves the active session id as it is.
rest_delete_session_keeping_active(sid) ==
  /\ UNCHANGED active_session_id
  /\ delete_session(sid)

\* DELETE /sessions/{id}: the active session is cleared if it is the one
\* deleted, then the session is deleted.
rest_delete_session(sid) ==
  /\ active_session_id' = IF active_session_id # NoSession /\ active_session_id = sid
                             THEN NoSession
                             ELSE active_session_id
  /\ delete_session(sid)

\* The status DELETE /sessions/{id} answers with.
rest_delete_status(sid) == IF delete_from(sessions, sid).deleted THEN 200 ELSE 404

\* --------------------------------------------------------- AuthorizedClient

\* httpx.RequestError: no answer, in place of a status.
NetworkError == 0

\* The issuer as a request finds it, before it has answered anything.
Quiet == [Issuer EXCEPT !.resp = NoResponse]

\* What an exception's message is built from: the session id, the scopes
\* missing and held, the downstream status.
Detail(sid, missing, has, status) == [sid |-> sid, missing |-> missing, has |-> has, status |-> status]

NoDetail == Detail(0, {}, {}, 0)

\* What a call on the request path comes to: the exception raised ("" for
\* none) and what its message names, the access token the downstream call
\* carries, the number of downstream requests sent, and the sessions and the
\* issuer as the call leaves them.
Outcome(raised, tok, ss, I) ==
  [raised |-> raised, detail |-> NoDetail, token |-> tok,
   requests |-> IF tok = NoToken THEN 0 ELSE 1, sessions |-> ss, issuer |-> I]

\* raise kind(message): nothing is sent, nothing changes.
Raise(kind, detail) == [Outcome(kind, NoToken, sessions, Quiet) EXCEPT !.detail = detail]

\* The scope check that lets every existing session through.
check_authorization_unscoped(sid, required_scopes) ==
  IF sid \notin DOMAIN sessions
    THEN Raise("AuthenticationError", Detail(sid, {}, {}, 0))
    ELSE Outcome("", NoToken, sessions, Quiet)

\* The scope check that reports an unknown session as a lack of scopes.
check_authorization_unknown_forbidden(sid, required_scopes) ==
  IF sid \notin DOMAIN sessions
    THEN Raise("AuthorizationError", Detail(sid, required_scopes, {}, 0))
    ELSE Outcome("", NoToken, sessions, Quiet)

\* TokenManager.check_authorization: the exception it raises, or none.
check_authorization(sid, required_scopes) ==
  IF sid \notin DOMAIN sessions
    THEN Raise("AuthenticationError", Detail(sid, {}, {}, 0))
  ELSE LET missing_scopes == {sc \in required_scopes : sc \notin sessions[sid].scopes}
       IN IF missing_scopes # {}
            THEN Raise("AuthorizationError", Detail(0, missing_scopes, sessions[sid].scopes, 0))
            ELSE Outcome("", NoToken, sessions, Quiet)

\* The request path that refreshes an expired access token itself.
ensure_valid_token_refreshing(sid, t) ==
  IF sid \notin DOMAIN sessions
    THEN Outcome("AuthenticationError", NoToken, sessions, Quiet)
  ELSE IF sessions[sid].access_token_expires_at > t
    THEN Outcome("", sessions[sid].access_token, sessions, Quiet)
  ELSE LET I == token(Issuer, "refresh_token", 0, sessions[sid].refresh_token,
                      OIDC_CLIENT_ID, t, FALSE)
       IN IF I.resp.status = 200
            THEN Outcome("", I.resp.access_token,
                         [sessions EXCEPT ![sid].access_token = I.resp.access_token,
                                          ![sid].refresh_token = I.resp.refresh_token], I)
            ELSE Outcome("AuthenticationError", NoToken, sessions, I)

\* The token read its docstring describes: an expired access token raises.
ensure_valid_token_strict(sid, t) ==
  IF sid \notin DOMAIN sessions
    THEN Raise("AuthenticationError", Detail(sid, {}, {}, 0))
  ELSE IF sessions[sid].access_token_expires_at > t
    THEN Outcome("", sessions[sid].access_token, sessions, Quiet)
  ELSE Raise("AuthenticationError", Detail(sid, {}, {}, 0))

\* TokenManager.ensure_valid_token: the stored access token, valid or expired
\* (the expired branch only logs a warning); it refreshes nothing.
ensure_valid_token(sid, t) ==
  IF sid \notin DOMAIN sessions
    THEN Raise("AuthenticationError", Detail(sid, {}, {}, 0))
  ELSE IF sessions[sid].access_token_expires_at > t
    THEN Outcome("", sessions[sid].access_token, sessions, Quiet)
  ELSE Outcome("", sessions[sid].access_token, sessions, Quiet)

\* CapitalPlanningAPIClient._make_request, up to the downstream call it sends.
make_request(sid, tool, t) ==
  LET auth == check_authorization(sid, TOOL_SCOPE_REQUIREMENTS[tool])
  IN IF auth.raised # ""
       THEN auth
       ELSE ensure_valid_token(sid, t)

\* The answers of the Services API the client tells apart by name: success
\* and the two rejections.
DownstreamStatuses == {200, 401, 403}

\* The Services API that decodes with verify_exp off: an expired token passes.
services_status_without_exp(tok, tool, t) ==
  IF tok.typ = "none" \/ tok.typ = "garbage" THEN 401
  ELSE IF \E sc \in TOOL_SCOPE_REQUIREMENTS[tool] : sc \notin tok.scopes THEN 403
  ELSE 200

\* services/auth.py verify_token and require_scope: the status the Services
\* API answers a bearer token with.  jwt.decode verifies exp without leeway;
\* require_scope reads the token's scopes claim.
services_status(tok, tool, t) ==
  IF tok.typ = "none" \/ tok.typ = "garbage" \/ Exp(tok) <= t THEN 401
  ELSE IF \E sc \in TOOL_SCOPE_REQUIREMENTS[tool] : sc \notin tok.scopes THEN 403
  ELSE 200

\* The client that answers a 401 by refreshing the session and sending the
\* request again.
make_request_retrying(sid, tool, t, status) ==
  LET sent == make_request(sid, tool, t)
      I == token(Issuer, "refresh_token", 0, sessions[sid].refresh_token,
                 OIDC_CLIENT_ID, t, FALSE)
  IN IF sent.raised # "" THEN sent
     ELSE IF status = 401
       THEN [sent EXCEPT !.requests = 2, !.issuer = I,
                         !.raised = "AuthenticationError",
                         !.detail = Detail(0, {}, {}, status)]
     ELSE IF status = 403
       THEN [sent EXCEPT !.raised = "AuthorizationError", !.detail = Detail(0, {}, {}, status)]
     ELSE sent

\* CapitalPlanningAPIClient._make_request with the answer to the one request
\* it sends: 401 and 403 become the two auth exceptions, 404, any other
\* status from 400 up and a network error become APIError.
make_request_answered(sid, tool, t, status) ==
  LET sent == make_request(sid, tool, t)
  IN IF sent.raised # "" THEN sent
     ELSE IF status = NetworkError
       THEN [sent EXCEPT !.raised = "APIError"]
     ELSE IF status = 401
       THEN [sent EXCEPT !.raised = "AuthenticationError", !.detail = Detail(0, {}, {}, status)]
     ELSE IF status = 403
       THEN [sent EXCEPT !.raised = "AuthorizationError", !.detail = Detail(0, {}, {}, status)]
     ELSE IF status = 404
       THEN [sent EXCEPT !.raised = "APIError", !.detail = Detail(0, {}, {}, status)]
     ELSE IF status >= 400
       THEN [sent EXCEPT !.raised = "APIError", !.detail = Detail(0, {}, {}, status)]
     ELSE sent

\* The error text that quotes the bearer token of the rejected request.
handle_error_quoting_bearer(call) ==
  [kind |-> call.raised, names |-> call.detail, bearer |-> call.token]

\* tools.handle_error: the text names the kind of the exception and what its
\* message names.
handle_error(call) == [kind |-> call.raised, names |-> call.detail, bearer |-> NoToken]

\* What a tool function returns to the agent: the formatted downstream data
\* (not modelled further) or handle_error's text.
tool_text(call) ==
  IF call.raised = ""
    THEN [kind |-> "result", names |-> NoDetail, bearer |-> NoToken]
    ELSE handle_error(call)

\* An MCP tool (capital_get_assets and the others) called with the header
\* X-Session-ID: caller.  No code of the MCP server reads the header: the
\* session is SessionManager.get_active_session(), which raises if none is
\* active.
capital_tool(caller, tool, t, status) ==
  IF active_session_id = NoSession
    THEN Raise("AuthenticationError", NoDetail)
    ELSE make_request_answered(active_session_id, tool, t, status)

\* -------------------------------------------------------- HeartbeatScheduler

RECURSIVE SortedSeq(_)
\* list(self._sessions.items()): the dict's keys in insertion order, which is
\* the order the session ids were handed out in.
SortedSeq(S) ==
  IF S = {} THEN << >>
  ELSE LET m == CHOOSE x \in S : \A y \in S : x <= y
       IN <<m>> \o SortedSeq(S \ {m})

\* What _refresh_tokens gets back for one POST /token.
Answer(sid, status, access_token, refresh_token, expires_in) ==
  [sid |-> sid, status |-> status, access_token |-> access_token,
   refresh_token |-> refresh_token, expires_in |-> expires_in]

\* _refresh_tokens up to the await of client.post: the request presents the
\* session's refresh token; it reaches the issuer or not (httpx.RequestError),
\* and the issuer's answer reaches the broker or is lost on the way back.
post_refresh(pending, sid, delivered, answered, late) ==
  IF delivered
    THEN /\ Becomes(token(Issuer, "refresh_token", 0, Obj(sid).refresh_token,
                           OIDC_CLIENT_ID, now, late))
         /\ inflight' = Append(pending,
              IF answered
                THEN Answer(sid, resp'.status, resp'.access_token, resp'.refresh_token,
                            ACCESS_TOKEN_LIFETIME)
                ELSE Answer(sid, NetworkError, NoToken, NoToken, 0))
    ELSE /\ inflight' = Append(pending, Answer(sid, NetworkError, NoToken, NoToken, 0))
         /\ IssuerIdle

\* The refresh that forgets to count itself.
apply_refresh_uncounted(session, token_data, t) ==
  [session EXCEPT
     !.access_token = token_data.access_token,
     !.access_token_expires_at = t + OrDefault(token_data.expires_in, FALLBACK_EXPIRES_IN),
     !.refresh_token = token_data.refresh_token,
     !.refresh_token_expires_at = t + FALLBACK_REFRESH_EXPIRES_IN,
     !.last_refreshed_at = t]

\* The refresh that stores the new access token and yields before it stores
\* the new refresh token: a reader in between sees tokens of two refreshes.
apply_refresh_torn(session, token_data, t) ==
  [session EXCEPT
     !.access_token = token_data.access_token,
     !.access_token_expires_at = t + OrDefault(token_data.expires_in, FALLBACK_EXPIRES_IN),
     !.last_refreshed_at = t,
     !.refresh_count = @ + 1]

\* The refresh that stamps the session as created anew.
apply_refresh_recreating(session, token_data, t) ==
  [session EXCEPT
     !.access_token = token_data.access_token,
     !.access_token_expires_at = t + OrDefault(token_data.expires_in, FALLBACK_EXPIRES_IN),
     !.refresh_token = token_data.refresh_token,
     !.refresh_token_expires_at = t + FALLBACK_REFRESH_EXPIRES_IN,
     !.created_at = t,
     !.last_refreshed_at = t,
     !.refresh_count = @ + 1]

\* _refresh_tokens after a 200 answer: both tokens and their expiries, the
\* time of the refresh and the count.
apply_refresh(session, token_data, t) ==
  LET s1 == [session EXCEPT
               !.access_token = token_data.access_token,
               !.access_token_expires_at =
                   t + OrDefault(token_data.expires_in, FALLBACK_EXPIRES_IN)]
      s2 == IF token_data.refresh_token # NoToken
              THEN [s1 EXCEPT !.refresh_token = token_data.refresh_token,
                              !.refresh_token_expires_at = t + FALLBACK_REFRESH_EXPIRES_IN]
              ELSE s1
  IN [s2 EXCEPT !.last_refreshed_at = t, !.refresh_count = @ + 1]

\* refresh_all_sessions' bookkeeping of one session's outcome: the error
\* message names the session and the status (NetworkError for no answer).
count_outcome(st, sid, status) ==
  IF status = 200
    THEN [st EXCEPT !.refreshed = @ + 1]
    ELSE [st EXCEPT !.failed = @ + 1,
                    !.errors = Append(@, [sid |-> sid, status |-> status])]

\* asyncio.CancelledError, in place of a status: the await was cancelled.
CancelledError == -2

\* The handler that catches whatever is raised, a cancellation included.
except_Exception_bare(exc) == TRUE

\* `except Exception`: asyncio.CancelledError derives from BaseException and
\* passes through it.
except_Exception(exc) == exc # CancelledError

\* The heartbeat that gives up after a cycle in which a refresh failed.
cycle_done_crashing(st) == IF st.failed > 0 THEN "done" ELSE "sleep"

\* token_refresh_heartbeat after refresh_all_sessions has returned or raised:
\* it logs the stats or the error and goes round its while True loop.
cycle_done(st) == "sleep"

\* The refresh that stores its session back under its id, deleted or not.
assign_refreshed_by_id(ss, sid, token_data, t) ==
  Put(ss, sid, apply_refresh(IF sid \in DOMAIN ss THEN ss[sid] ELSE detached[sid],
                             token_data, t))

\* _refresh_tokens assigns to the TokenSession object the snapshot holds: the
\* store shows the new values only if it still holds that object.
assign_refreshed(ss, sid, token_data, t) ==
  IF sid \in DOMAIN ss
    THEN [ss EXCEPT ![sid] = apply_refresh(@, token_data, t)]
    ELSE ss

\* The cycle that drops a session from the store when its refresh fails.
refresh_failed_purging(ss, sid) == RemoveKey(ss, sid)

\* refresh_all_sessions' except branch: the failure is logged and counted;
\* the store keeps the session.
refresh_failed(ss, sid) == ss

\* The sessions whose refresh token the issuer holds a revoked record for.
RevokedHolders ==
  {sid \in DOMAIN sessions :
     /\ sessions[sid].refresh_token \in DOMAIN refresh_tokens_store
     /\ refresh_tokens_store[sessions[sid].refresh_token].revoked}

\* A heartbeat that starts a cycle whenever the interval has passed.
HbMayStart_overlapping == now >= hbSleepStart + hbInterval

\* asyncio.sleep(TOKEN_REFRESH_HEARTBEAT_SECONDS) has returned, and only the
\* heartbeat task, between two cycles, starts a cycle.
HbMayStart ==
  /\ hbPc = "sleep"
  /\ now >= hbSleepStart + hbInterval

\* token_refresh_heartbeat wakes, refresh_all_sessions snapshots the sessions
\* and posts the first refresh (an empty snapshot ends the cycle at once).
HbStart(delivered, answered, late) ==
  /\ HbMayStart
  /\ hbCancel # "requested"
  /\ LET snap == SortedSeq(DOMAIN sessions)
     IN /\ hbSnap' = snap
        /\ stats' = [total_sessions |-> Cardinality(DOMAIN sessions),
                     refreshed |-> 0, failed |-> 0, errors |-> << >>]
        /\ hbQueue' = snap
        /\ hbThen' = [revoked |-> RevokedHolders, grants |-> holderGrants]
        /\ IF snap = << >>
             THEN /\ hbPc' = cycle_done(stats')
                  /\ hbSleepStart' = now
                  /\ hbAttempted' = << >>
                  /\ IssuerIdle
                  /\ UNCHANGED inflight
             ELSE /\ hbPc' = "await"
                  /\ hbAttempted' = <<Head(snap)>>
                  /\ post_refresh(inflight, Head(snap), delivered, answered, late)
                  /\ UNCHANGED hbSleepStart
  /\ UNCHANGED <<now, ticks, storeVars, hbCancel, hbInterval, holderGrants>>

\* The answer to the refresh in flight arrives: _refresh_tokens applies it or
\* raises, refresh_all_sessions counts it and posts the next session's
\* refresh, or returns the stats and the heartbeat sleeps again.
HbStep(delivered, answered, late) ==
  /\ hbPc = "await"
  /\ hbCancel # "requested"
  /\ inflight # << >>
  /\ hbQueue # << >>
  /\ LET token_data == Head(inflight)
         sid == token_data.sid
         ok == token_data.status = 200
         rest == Tail(hbQueue)
     IN /\ IF ok
             THEN sessions' = assign_refreshed(sessions, sid, token_data, now)
             ELSE sessions' = refresh_failed(sessions, sid)
        /\ detached' = RemoveKey(detached, sid)
        /\ stats' = count_outcome(stats, sid, token_data.status)
        /\ hbQueue' = rest
        /\ IF rest = << >>
             THEN /\ hbPc' = cycle_done(stats')
                  /\ hbSleepStart' = now
                  /\ inflight' = Tail(inflight)
                  /\ IssuerIdle
                  /\ UNCHANGED hbAttempted
             ELSE /\ hbPc' = "await"
                  /\ hbAttempted' = Append(hbAttempted, Head(rest))
                  /\ post_refresh(Tail(inflight), Head(rest), delivered, answered, late)
                  /\ UNCHANGED hbSleepStart
  /\ UNCHANGED <<now, ticks, nextSid, active_session_id, hbCancel, hbSnap, hbThen, hbInterval,
                  holderGrants>>

\* ------------------------------------------------------- the issuer alone

\* What a client of the issuer can send: its own or a wrong client id, the
\* codes it may hold (0: none or an unknown one), and any token it was handed.
ClientIds == {CLIENT_ID, "other-client"}
CodeInputs == 0 .. MaxCodes
TokenInputs == returned \cup {NoToken, Garbage}

\* A step of the issuer alone leaves the broker as it is.
BrokerIdle == UNCHANGED <<now, ticks, storeVars, hbVars, holderGrants>>

ClientAuthorize ==
  /\ Len(auth_codes) < MaxCodes
  /\ \E u \in Usernames \cup {"nobody"}, ok \in BOOLEAN, c \in ClientIds :
       Becomes(authorize(Issuer, u, ok, c, now))
  /\ BrokerIdle

ClientCodeGrant ==
  /\ nextId <= MaxRecords
  /\ \E code \in CodeInputs, c \in ClientIds, late \in BOOLEAN :
       Becomes(token(Issuer, "authorization_code", code, NoToken, c, now, late))
  /\ BrokerIdle

ClientRefreshGrant ==
  /\ nextId <= MaxRecords
  /\ \E t \in TokenInputs, c \in ClientIds, late \in BOOLEAN :
       Becomes(token(Issuer, "refresh_token", 0, t, c, now, late))
  /\ BrokerIdle

ClientOtherGrant ==
  /\ \E c \in ClientIds : Becomes(token(Issuer, "password", 0, NoToken, c, now, FALSE))
  /\ BrokerIdle

Advance == ticks < MaxTicks /\ \E d \in TimeSteps : Tick(d)

IssuerNext ==
  \/ Advance
  \/ ClientAuthorize
  \/ ClientCodeGrant
  \/ ClientRefreshGrant
  \/ ClientOtherGrant

SpecIssuer == Init /\ [][IssuerNext]_vars

\* ------------------------------------------- the broker with its issuer

RefreshTokens == {t \in returned : t.typ = "refresh"}
SessionIds == 1 .. MaxSessions

\* The tools a call is made for: one that needs assets:read, which both users
\* hold, and one that needs investments:write, which only admin_user holds.
ToolInputs == {"capital_get_assets", "capital_optimize_investments"}

\* The frontend logs a user in (/authorize, then the code grant) and hands the
\* token pair to POST /sessions, as agent/main.py create_mcp_session does (no
\* expires_in, no refresh_expires_in).
FrontendLogin ==
  /\ nextSid <= MaxSessions
  /\ \E u \in Usernames :
       LET asked == authorize(Issuer, u, TRUE, CLIENT_ID, now)
           granted == token(asked, "authorization_code", asked.resp.code, NoToken,
                            CLIENT_ID, now, FALSE)
       IN /\ Becomes(granted)
          /\ rest_create_session(granted.resp.access_token, granted.resp.refresh_token,
                                 0, 0, USERS[u].scopes, USERS[u].sub)
  /\ UNCHANGED <<now, ticks, hbVars, holderGrants>>

\* Whoever else holds a session's refresh token presents it to the issuer.
HolderRefreshGrant ==
  /\ holderGrants < MaxHolderGrants
  /\ \E t \in RefreshTokens :
       Becomes(token(Issuer, "refresh_token", 0, t, CLIENT_ID, now, FALSE))
  /\ holderGrants' = holderGrants + 1
  /\ UNCHANGED <<now, ticks, storeVars, hbVars>>

\* DELETE /sessions/{id}
FrontendDeleteSession ==
  /\ nextSid - 1 - Cardinality(DOMAIN sessions) < MaxDeletes
  /\ \E sid \in SessionIds : rest_delete_session(sid)
  /\ IssuerIdle
  /\ UNCHANGED <<now, ticks, hbVars, holderGrants>>

\* A tool function of tools.py is run for a session.
ToolCall ==
  /\ \E sid \in SessionIds, tool \in ToolInputs :
       LET sent == make_request(sid, tool, now)
           call == make_request_answered(sid, tool, now, services_status(sent.token, tool, now))
       IN sessions' = call.sessions /\ Becomes(call.issuer)
  /\ UNCHANGED <<now, ticks, detached, nextSid, active_session_id, hbVars, holderGrants>>

Heartbeat ==
  \E delivered \in BOOLEAN, answered \in BOOLEAN, late \in BOOLEAN :
    \/ HbStart(delivered, answered, late)
    \/ HbStep(delivered, answered, late)

\* The clock reaches the next heartbeat.
BrokerAdvance == ticks < MaxBeats /\ Tick(TOKEN_REFRESH_HEARTBEAT_SECONDS)

Next ==
  \/ BrokerAdvance
  \/ FrontendLogin
  \/ HolderRefreshGrant
  \/ FrontendDeleteSession
  \/ ToolCall
  \/ Heartbeat

Spec == Init /\ [][Next]_vars

\* POST /sessions/{id}/activate
ActivateSession ==
  /\ \E sid \in SessionIds : set_active_session(sid)
  /\ IssuerIdle
  /\ UNCHANGED <<now, ticks, sessions, detached, nextSid, hbVars, holderGrants>>

\* The agent calls a tool of the MCP server on behalf of a session.
AgentToolCall ==
  /\ \E caller \in SessionIds, tool \in ToolInputs :
       LET sent == capital_tool(caller, tool, now, 200)
           call == capital_tool(caller, tool, now, services_status(sent.token, tool, now))
       IN sessions' = call.sessions /\ Becomes(call.issuer)
  /\ UNCHANGED <<now, ticks, detached, nextSid, active_session_id, hbVars, holderGrants>>

\* The MCP server as its REST clients and the agent drive it.
ToolsNext ==
  \/ BrokerAdvance
  \/ FrontendLogin
  \/ ActivateSession
  \/ FrontendDeleteSession
  \/ AgentToolCall

SpecTools == Init /\ [][ToolsNext]_vars

\* The heartbeat intervals the rotation scenarios run under: 10 seconds, and
\* the default of config.py.
HeartbeatSettings == {10, TOKEN_REFRESH_HEARTBEAT_SECONDS}

\* The clock steps of the rotation scenarios.
RotationSteps == {5}

InitRotation == \E interval \in HeartbeatSettings : Started(interval)

\* The clock of the rotation scenarios: asyncio.sleep wakes the heartbeat on
\* time, and a cycle's requests are answered within the second they are sent.
RotationAdvance ==
  /\ ticks < MaxRotationTicks
  /\ hbPc = "sleep"
  /\ \E d \in RotationSteps : now + d <= hbSleepStart + hbInterval /\ Tick(d)

\* One user logs in and one session is made of the pair.
RotationLogin == nextSid = 1 /\ FrontendLogin

\* The heartbeat with the issuer reachable: every request is delivered and
\* answered.
RotationHeartbeat ==
  \E late \in BOOLEAN :
    \/ HbStart(TRUE, TRUE, late)
    \/ HbStep(TRUE, TRUE, late)

RotationNext ==
  \/ RotationAdvance
  \/ RotationLogin
  \/ RotationHeartbeat

\* One session under the heartbeat, nobody else presenting its refresh tokens.
SpecRotation == InitRotation /\ [][RotationNext]_vars

\* The issuer with ROTATE_REFRESH_TOKENS = False in its config.py.
InitUnrotated == \E interval \in HeartbeatSettings : StartedWith(interval, FALSE)

\* One session under the heartbeat of a broker whose issuer does not rotate.
SpecUnrotated == InitUnrotated /\ [][RotationNext]_vars

\* ------------------------------------------------- the server's lifecycle

\* How many heartbeat intervals the lifecycle scenarios run for, and how many
\* sessions they create.
MaxLifeTicks == 2
MaxLifeSessions == 2

\* The clock reaches the end of the heartbeat's sleep.  The event loop runs
\* what is ready before it waits for a timer: the clock stands still while a
\* cycle is awaiting or a cancellation is to be delivered.
LifeAdvance ==
  /\ ticks < MaxLifeTicks
  /\ hbPc # "await"
  /\ hbCancel # "requested"
  /\ now < hbSleepStart + hbInterval
  /\ Tick(hbInterval)

\* A login while the server is serving.
LifeLogin ==
  /\ hbCancel = "none"
  /\ nextSid <= MaxLifeSessions
  /\ FrontendLogin

\* app_lifespan after its yield: _heartbeat_task.cancel(), then wait_for the
\* task.
Shutdown ==
  /\ hbCancel = "none"
  /\ hbCancel' = "requested"
  /\ IssuerIdle
  /\ UNCHANGED <<now, ticks, storeVars, hbPc, hbSleepStart, hbQueue, inflight, stats, hbSnap,
                  hbAttempted, hbThen, hbInterval, holderGrants>>

\* The CancelledError is thrown into the heartbeat task at the await it is
\* suspended in.  In asyncio.sleep it reaches the outer handler, which logs and
\* re-raises.  In client.post it passes _refresh_tokens' except
\* httpx.RequestError, then meets refresh_all_sessions' and the heartbeat's
\* except Exception: what they catch the cycle takes for the refresh's
\* failure, what they do not ends the task with the stats never returned.
HbCancelled ==
  /\ hbCancel = "requested"
  /\ hbCancel' = "delivered"
  /\ IF hbPc = "await" /\ except_Exception(CancelledError)
       THEN /\ inflight' = <<Answer(Head(hbQueue), CancelledError, NoToken, NoToken, 0)>>
            /\ UNCHANGED <<hbPc, hbQueue, detached>>
       ELSE /\ hbPc' = "done"
            /\ inflight' = << >>
            /\ hbQueue' = << >>
            /\ detached' = << >>
  /\ IssuerIdle
  /\ UNCHANGED <<now, ticks, sessions, nextSid, active_session_id, hbSleepStart, stats, hbSnap,
                  hbAttempted, hbThen, hbInterval, holderGrants>>

LifeNext ==
  \/ LifeAdvance
  \/ LifeLogin
  \/ Heartbeat
  \/ Shutdown
  \/ HbCancelled

\* The server from its start to its shutdown.
SpecLifecycle == Init /\ [][LifeNext]_vars

\* The same under the event loop's scheduling: time passes, a task that can
\* run is run (an awaited request is answered or times out), and a requested
\* cancellation is delivered.
SpecLifecycleFair ==
  /\ Init
  /\ [][LifeNext]_vars
  /\ WF_vars(LifeAdvance)
  /\ WF_vars(Heartbeat)
  /\ WF_vars(HbCancelled)

\* -------------------------------------------- the store over several cycles

\* The agent is invoked again with the pair the frontend got at a login and
\* makes another session of it (stream_agent_response creates one MCP session
\* per request).
AgentSession ==
  /\ hbCancel = "none"
  /\ nextSid <= MaxLifeSessions
  /\ \E rt \in RefreshTokens :
       /\ \E r \in issued : r.token = rt /\ r.parent = NoParent
       /\ rest_create_session(create_access_token(rt.sub, rt.scopes, rt.iat), rt, 0, 0,
                              rt.scopes, rt.sub)
  /\ IssuerIdle
  /\ UNCHANGED <<now, ticks, hbVars, holderGrants>>

SessionsNext ==
  \/ LifeAdvance
  \/ LifeLogin
  \/ AgentSession
  \/ FrontendDeleteSession
  \/ Heartbeat

\* Sessions created and deleted while the heartbeat runs cycle after cycle.
SpecSessions == Init /\ [][SessionsNext]_vars

\* ------------------------------------------------------------ the issuer's claims

\* The refresh grant handler answered this step.
RefreshAnswered == resp'.op = "refresh"

Tokenless(r) == r.access_token = NoToken /\ r.refresh_token = NoToken

ReuseDetected(r) ==
  r.status = 401 /\ r.detail = "Refresh token has been revoked" /\ Tokenless(r)

\* The refresh grant has accepted R before: a record minted for R has a successor.
Accepted(R) ==
  \E p \in issued : p.token = R /\ \E r \in issued : r.parent = p.id

\* C1: once the refresh grant has accepted a refresh token R (its first
\* presentation, which returned a new pair), every later presentation of R is
\* answered with the reuse-detected outcome and no tokens.
C1_LaterPresentationsReuseDetected ==
  [][RefreshAnswered /\ Accepted(resp'.presented) => ReuseDetected(resp')]_vars

\* C2: an exchange of a code before it expires succeeds if the code is unused
\* and marks it used; an exchange of a used code fails with "Authorization code
\* already used" and no tokens; used changes only from false to true, only in
\* the successful exchange of that code, and never back.
C2_CodeExchangedOnce ==
  [][\A c \in DOMAIN auth_codes :
       /\ auth_codes[c].used => auth_codes'[c].used
       /\ auth_codes'[c].used # auth_codes[c].used
            => resp'.op = "code" /\ resp'.code = c /\ resp'.status = 200
       /\ resp'.op = "code" /\ resp'.code = c =>
            IF auth_codes[c].used
              THEN /\ resp'.status = 400
                   /\ resp'.detail = "Authorization code already used"
                   /\ Tokenless(resp')
                   /\ UNCHANGED issuerData
            ELSE IF now < auth_codes[c].expires
              THEN /\ resp'.status = 200
                   /\ ~Tokenless(resp')
                   /\ auth_codes'[c].used
            ELSE now > auth_codes[c].expires =>
                   /\ resp'.status = 400
                   /\ resp'.detail = "Authorization code expired"
                   /\ ~auth_codes'[c].used
    ]_vars

\* C2's case: a code was exchanged, and its second exchange has just failed.
C2_Witness ==
  /\ resp.op = "code"
  /\ resp.status = 400
  /\ resp.detail = "Authorization code already used"
  /\ auth_codes[resp.code].used
  /\ \E r \in issued : r.parent = NoParent

\* C3: a successful refresh grant returns a refresh token that differs from the
\* presented one and from every refresh token issued before.
C3_RotationReturnsNewToken ==
  [][RefreshAnswered /\ resp'.status = 200 =>
       /\ resp'.refresh_token # resp'.presented
       /\ \A r \in issued : r.token # resp'.refresh_token]_vars

ParentOf(id) == (CHOOSE r \in issued : r.id = id).parent

RECURSIVE Root(_)
\* The code exchange a TokenRecord's parent links lead back to.
Root(id) == IF ParentOf(id) = NoParent THEN id ELSE Root(ParentOf(id))

\* The stored TokenRecords of the chain a code exchange began.
Chain(root) ==
  {tok \in DOMAIN refresh_tokens_store : Root(refresh_tokens_store[tok].id) = root}

\* C4: every rotation chain holds exactly one non-revoked TokenRecord.
C4_OneLiveRecordPerChain ==
  \A r \in issued :
    r.parent = NoParent =>
      Cardinality({tok \in Chain(r.id) : ~refresh_tokens_store[tok].revoked}) = 1

\* C5: of the refresh grants presenting one refresh token at most one
\* succeeds, and no TokenRecord gets two successors.
C5_OneSuccessorPerRecord ==
  [][/\ RefreshAnswered /\ resp'.status = 200 => ~Accepted(resp'.presented)
     /\ \A r1, r2 \in issued' :
          r1.parent # NoParent /\ r1.parent = r2.parent => r1 = r2]_vars

\* C6: presenting the refresh token of a TokenRecord that rotation has revoked
\* is answered with the reuse-detected outcome, whatever the time.
C6_RevokedStaysReuseDetected ==
  [][/\ RefreshAnswered
     /\ resp'.presented \in DOMAIN refresh_tokens_store
     /\ refresh_tokens_store[resp'.presented].revoked
     => ReuseDetected(resp')]_vars

\* ------------------------------------------------------------ the broker's claims

InFlight(sid) == {k \in 1 .. Len(inflight) : inflight[k].sid = sid}

\* C8: at most one refresh request of a session is in flight at any time, it
\* is the one the cycle is waiting for, and between cycles none is in flight.
C8_RefreshesSequential ==
  /\ \A sid \in SessionIds : Cardinality(InFlight(sid)) <= 1
  /\ hbPc = "await" => hbQueue # << >> /\ InFlight(Head(hbQueue)) = DOMAIN inflight
  /\ hbPc = "sleep" => inflight = << >>

\* C8's case: the cycle has completed one session's refresh and is waiting for
\* the answer to the next session's.
C8_Witness ==
  /\ hbPc = "await"
  /\ Len(inflight) = 1
  /\ stats.refreshed + stats.failed >= 1

\* No request of the cycle was lost and nobody else presented a token while
\* the cycle ran.
Undisturbed ==
  /\ holderGrants = hbThen.grants
  /\ \A k \in DOMAIN stats.errors : stats.errors[k].status # NetworkError

\* C9: a completed cycle has attempted every session of its snapshot exactly
\* once, failed ones included, with one error entry per failure and
\* refreshed + failed = total; with three sessions of which exactly one held a
\* revoked refresh token at the start, it reports refreshed = 2 and failed = 1.
C9_CycleSummary ==
  hbPc = "sleep" =>
    /\ stats.total_sessions = Len(hbSnap)
    /\ hbAttempted = hbSnap
    /\ stats.refreshed + stats.failed = stats.total_sessions
    /\ Len(stats.errors) = stats.failed
    /\ (Len(hbSnap) = 3 /\ Cardinality(hbThen.revoked) = 1 /\ Undisturbed
          => stats.refreshed = 2 /\ stats.failed = 1)

\* The answer arriving in this step is a successful refresh of session sid.
Refreshed(sid) ==
  /\ hbPc = "await"
  /\ hbQueue' # hbQueue
  /\ Head(inflight).sid = sid
  /\ Head(inflight).status = 200

\* C10: a session is created with refresh_count 0; a step adds exactly 1 to it
\* when it is a successful refresh of that session, and leaves it as it is
\* otherwise (a failed refresh included).
C10_RefreshCount ==
  [][\A sid \in DOMAIN sessions' :
       IF sid \in DOMAIN sessions
         THEN sessions'[sid].refresh_count =
                sessions[sid].refresh_count + (IF Refreshed(sid) THEN 1 ELSE 0)
         ELSE sessions'[sid].refresh_count = 0]_vars

\* C10's case: in one cycle a session was refreshed and counts 1, another's
\* refresh failed and still counts 0.
C10_Witness ==
  /\ hbPc = "sleep"
  /\ \E s1, s2 \in DOMAIN sessions :
       /\ sessions[s1].refresh_count = 1
       /\ sessions[s2].refresh_count = 0
       /\ \E k \in DOMAIN stats.errors : stats.errors[k].sid = s2

\* The expiry fields that belong to the pair a session holds: those of its
\* creation until the first refresh, those of the last refresh after it.
ExpiriesOfPair(s) ==
  IF s.refresh_count = 0
    THEN /\ s.last_refreshed_at = Never
         /\ s.access_token_expires_at = s.created_at + DEFAULT_EXPIRES_IN
         /\ s.refresh_token_expires_at = s.created_at + DEFAULT_REFRESH_EXPIRES_IN
    ELSE /\ s.last_refreshed_at >= s.access_token.iat
         /\ s.access_token_expires_at = s.last_refreshed_at + ACCESS_TOKEN_LIFETIME
         /\ s.refresh_token_expires_at = s.last_refreshed_at + FALLBACK_REFRESH_EXPIRES_IN

\* The access token and the refresh token come from one answer of the issuer.
OnePair(s) ==
  /\ s.access_token.typ = "access"
  /\ s.refresh_token.typ = "refresh"
  /\ s.access_token.sub = s.refresh_token.sub
  /\ s.access_token.iat = s.refresh_token.iat

\* C11: applying a refresh result is atomic for every reader: in every state a
\* request handler can run in, whether or not a heartbeat cycle is under way,
\* each session holds the access token, the refresh token and the expiry
\* fields of one and the same refresh (or of its creation), and the request
\* path hands out the access token of that pair.
C11_RefreshAppliedAtomically ==
  \A sid \in DOMAIN sessions :
    /\ OnePair(sessions[sid])
    /\ ExpiriesOfPair(sessions[sid])
    /\ \A tool \in ToolInputs :
         make_request(sid, tool, now).raised = ""
           => make_request(sid, tool, now).token.iat = sessions[sid].refresh_token.iat

\* A cycle is under way between two sessions: the first already holds the
\* pair of its refresh, the second still the pair of its creation.
C11_Witness ==
  /\ hbPc = "await"
  /\ \E a, b \in DOMAIN sessions :
       /\ sessions[a].refresh_count = 1
       /\ sessions[a].access_token.iat > sessions[a].created_at
       /\ sessions[b].refresh_count = 0
       /\ InFlight(b) # {}

\* Every tool the broker proxies.
Tools == DOMAIN TOOL_SCOPE_REQUIREMENTS

\* Every answer a proxied call can get, a network error included.
Answers == DownstreamStatuses \cup {404, 500, NetworkError}

\* C12: the scope check precedes the token read: a call for an existing
\* session that lacks a scope the tool requires raises AuthorizationError
\* naming exactly the missing scopes (and the scopes held), whether the access
\* token is valid or expired, carries no access token and sends no
\* downstream request.
C12_ScopeCheckPrecedesTokenRead ==
  \A sid \in DOMAIN sessions, tool \in Tools, status \in Answers :
    LET missing == TOOL_SCOPE_REQUIREMENTS[tool] \ sessions[sid].scopes
        call == make_request_answered(sid, tool, now, status)
    IN missing # {} =>
         /\ call.raised = "AuthorizationError"
         /\ call.detail.missing = missing
         /\ call.detail.has = sessions[sid].scopes
         /\ call.token = NoToken
         /\ call.requests = 0

\* C12's case: a session without investments:write whose access token is
\* still valid asks for capital_optimize_investments and is refused.
C12_Witness ==
  \E sid \in DOMAIN sessions :
    /\ sessions[sid].access_token_expires_at > now
    /\ "investments:write" \notin sessions[sid].scopes
    /\ LET call == make_request_answered(sid, "capital_optimize_investments", now, 200)
       IN /\ call.raised = "AuthorizationError"
          /\ call.detail.missing = {"investments:write"}
          /\ call.requests = 0

\* C13: a call for a session id that is not in the store, never handed out
\* or deleted, raises AuthenticationError naming that id whatever the tool
\* requires, and sends no downstream request.
C13_UnknownSessionUnauthenticated ==
  \A sid \in SessionIds \ DOMAIN sessions, tool \in Tools, status \in Answers :
    LET call == make_request_answered(sid, tool, now, status)
    IN /\ call.raised = "AuthenticationError"
       /\ call.detail.sid = sid
       /\ call.token = NoToken
       /\ call.requests = 0

\* C13's case: one session id was handed out and deleted, another was never
\* handed out, and calls for both are refused.
C13_Witness ==
  \E gone, never \in SessionIds \ DOMAIN sessions :
    /\ gone < nextSid
    /\ never >= nextSid
    /\ make_request_answered(gone, "capital_get_assets", now, 200).raised = "AuthenticationError"
    /\ make_request_answered(never, "capital_get_assets", now, 200).raised = "AuthenticationError"

C20_RejectionSurfacesWithoutRetry ==
  \A sid \in SessionIds, tool \in Tools, status \in Answers :
    LET call == make_request_answered(sid, tool, now, status)
    IN /\ call.requests <= 1
       /\ call.sessions = sessions
       /\ call.issuer = Quiet
       /\ call.requests = 1 /\ status = 401 => call.raised = "AuthenticationError"
       /\ call.requests = 1 /\ status = 403 => call.raised = "AuthorizationError"

\* C20's case: a refreshed session's call is sent once and answered 401, and
\* another call of it is sent once and answered 403.
C20_Witness ==
  \E sid \in DOMAIN sessions :
    /\ sessions[sid].refresh_count > 0
    /\ LET unauthorized == make_request_answered(sid, "capital_get_assets", now, 401)
           forbidden == make_request_answered(sid, "capital_get_assets", now, 403)
       IN /\ unauthorized.requests = 1
          /\ unauthorized.raised = "AuthenticationError"
          /\ forbidden.requests = 1
          /\ forbidden.raised = "AuthorizationError"

\* C18: a tool call made on behalf of a session is checked against that
\* session's scopes and, when it is sent, carries that session's access
\* token, whatever sessions were created and activated before it.
C18_ToolCallUsesCallersSession ==
  \A caller \in DOMAIN sessions, tool \in Tools, status \in Answers :
    LET call == capital_tool(caller, tool, now, status)
        missing == TOOL_SCOPE_REQUIREMENTS[tool] \ sessions[caller].scopes
    IN /\ call.requests = 1 => missing = {} /\ call.token = sessions[caller].access_token
       /\ call.raised = "AuthorizationError" /\ call.requests = 0
            => call.detail.missing = missing

\* C19: delete returns true exactly for a session that is present and then
\* removes it and nothing else, so that get no longer finds it and a second
\* delete returns false; for an absent session it returns false, the REST
\* answer is 404 and the store is left as it was.
C19_DeleteSession ==
  \A sid \in SessionIds :
    LET d == delete_from(sessions, sid)
    IN /\ d.deleted <=> sid \in DOMAIN sessions
       /\ d.deleted <=> rest_delete_status(sid) = 200
       /\ ~d.deleted <=> rest_delete_status(sid) = 404
       /\ ~d.deleted => d.sessions = sessions
       /\ d.deleted =>
            /\ get_session(sessions, sid) = {sessions[sid]}
            /\ get_session(d.sessions, sid) = {}
            /\ DOMAIN d.sessions = DOMAIN sessions \ {sid}
            /\ \A other \in DOMAIN d.sessions : d.sessions[other] = sessions[other]
            /\ ~delete_from(d.sessions, sid).deleted
            /\ delete_from(d.sessions, sid).sessions = d.sessions

\* C19's case: one session has been deleted while another is kept: get does
\* not find the deleted one and deleting it again answers 404, and the kept
\* one can still be deleted.
C19_Witness ==
  \E gone \in SessionIds \ DOMAIN sessions, kept \in DOMAIN sessions :
    /\ gone < nextSid
    /\ get_session(sessions, gone) = {}
    /\ rest_delete_status(gone) = 404
    /\ rest_delete_status(kept) = 200

\* The store with every session's two tokens replaced by other values.
Retokened(ss) ==
  [sid \in DOMAIN ss |-> [ss[sid] EXCEPT !.access_token = Garbage, !.refresh_token = Garbage]]

\* The step changes sessions and leaves every session's user and scopes as
\* they were: it replaces tokens.
SameGrants ==
  /\ sessions' # sessions
  /\ DOMAIN sessions' = DOMAIN sessions
  /\ \A sid \in DOMAIN sessions :
       /\ sessions'[sid].user_id = sessions[sid].user_id
       /\ sessions'[sid].scopes = sessions[sid].scopes

\* C17: no value the broker returns depends on a token: session
\* introspection and the answer to session creation are the same with other
\* tokens in their place, and the answer to activation and every tool
\* function's text, error texts included, stay the same over every step that
\* replaces a session's tokens.
C17_OutputsIndependentOfTokens ==
  /\ [](\A sid \in SessionIds :
          get_session_stats(Retokened(sessions), sid, now) = get_session_stats(sessions, sid, now))
  /\ [](\A u \in Usernames :
          rest_create_response(create_access_token(u, USERS[u].scopes, now),
                               create_refresh_token(u, USERS[u].scopes, now),
                               0, 0, USERS[u].scopes, u)
            = rest_create_response(Garbage, Garbage, 0, 0, USERS[u].scopes, u))
  /\ [][SameGrants =>
          \A sid \in DOMAIN sessions :
            sessions'[sid] # sessions[sid] =>
              /\ activate_response(sid)' = activate_response(sid)
              /\ \A tool \in ToolInputs, status \in DownstreamStatuses :
                   tool_text(make_request_answered(sid, tool, now, status))'
                     = tool_text(make_request_answered(sid, tool, now, status))]_vars

\* C17's case: a heartbeat has replaced a session's tokens; the session's
\* introspection shows the refresh, and a call of it that the downstream
\* rejects returns an authentication error text.
C17_Witness ==
  \E sid \in DOMAIN sessions :
    /\ sessions[sid].access_token.iat > sessions[sid].created_at
    /\ get_session_stats(sessions, sid, now).refresh_count = 1
    /\ activate_response(sid).status = 200
    /\ tool_text(make_request_answered(sid, "capital_get_assets", now, 401)).kind = "AuthenticationError"

\* The issuer holds a live record for the refresh token and would accept it.
ValidAtIssuer(tok) ==
  /\ tok \in DOMAIN refresh_tokens_store
  /\ ~refresh_tokens_store[tok].revoked
  /\ refresh_tokens_store[tok].expires > now
  /\ verify_token(tok, now)
  /\ token(Issuer, "refresh_token", 0, tok, OIDC_CLIENT_ID, now, FALSE).resp.status = 200

\* C15: with a heartbeat every 10 seconds, refresh tokens that live 30
\* seconds and nobody else presenting the session's refresh tokens, every
\* heartbeat refresh of a session made from a fresh pair succeeds; 40 seconds
\* after its creation the session has been refreshed at least 3 times, and
\* between cycles the refresh token it holds is valid at the issuer.
C15_RotationExtendsSession ==
  hbInterval = 10 =>
    /\ stats.failed = 0
    /\ \A sid \in DOMAIN sessions :
         /\ hbPc = "sleep" => ValidAtIssuer(sessions[sid].refresh_token)
         /\ now >= sessions[sid].created_at + 40 => sessions[sid].refresh_count >= 3

\* C15's case: 40 seconds after its creation a session sits between two
\* cycles, refreshed at least 3 times, with a refresh token younger than the
\* session that the issuer would accept.
C15_Witness ==
  /\ hbInterval = 10
  /\ hbPc = "sleep"
  /\ \E sid \in DOMAIN sessions :
       /\ now >= sessions[sid].created_at + 40
       /\ sessions[sid].refresh_count >= 3
       /\ sessions[sid].refresh_token.iat > sessions[sid].created_at + REFRESH_TOKEN_LIFETIME
       /\ ValidAtIssuer(sessions[sid].refresh_token)

\* Under the default interval, a session whose refreshes all succeeded holds
\* an access token that has not expired, by the broker's own expiry field and
\* by the token's exp claim.
FreshAfterFirstRefresh ==
  \A sid \in DOMAIN sessions :
    (/\ hbInterval = TOKEN_REFRESH_HEARTBEAT_SECONDS
     /\ stats.failed = 0
     /\ sessions[sid].refresh_count >= 1)
    => /\ sessions[sid].access_token_expires_at > now
       /\ Exp(sessions[sid].access_token) > now

\* C16: the heartbeat interval is shorter than the access-token lifetime and
\* the refresh-token lifetime of the issuer, so that a session whose
\* heartbeat refreshes all succeed never holds an expired access token after
\* its first refresh.
C16_IntervalShorterThanLifetimes ==
  /\ FreshAfterFirstRefresh
  /\ TOKEN_REFRESH_HEARTBEAT_SECONDS < ACCESS_TOKEN_LIFETIME
  /\ TOKEN_REFRESH_HEARTBEAT_SECONDS < REFRESH_TOKEN_LIFETIME

\* C21: the issuer's TokenRecords are append-only and keyed by token value:
\* a record stored under a token value is never removed and never replaced
\* by another record (same id, subject and parent ever after), its expiry is
\* never extended, and revoked only ever goes from false to true.
C21_RecordsAppendOnly ==
  [][\A tok \in DOMAIN refresh_tokens_store :
       /\ tok \in DOMAIN refresh_tokens_store'
       /\ refresh_tokens_store'[tok].id = refresh_tokens_store[tok].id
       /\ refresh_tokens_store'[tok].sub = refresh_tokens_store[tok].sub
       /\ refresh_tokens_store'[tok].parent = refresh_tokens_store[tok].parent
       /\ refresh_tokens_store'[tok].expires <= refresh_tokens_store[tok].expires
       /\ refresh_tokens_store[tok].revoked => refresh_tokens_store'[tok].revoked]_vars

\* The sessions of the running cycle's snapshot whose refresh has not been
\* posted yet.
Unposted ==
  {hbQueue[k] : k \in 1 .. Len(hbQueue)} \ {hbAttempted[k] : k \in 1 .. Len(hbAttempted)}

\* C22: a refresh that is slow or timing out for one session does not hold up
\* the other sessions of the cycle: while the cycle waits for one session's
\* answer, no other session of the snapshot is still waiting for its refresh
\* to be sent.
C22_SlowRefreshBlocksNobody == hbPc = "await" => Unposted = {}


\* C29: the broker never records for a token it stores an expiry later than
\* the expiry the issuer holds for that token: a session's
\* access_token_expires_at is not after the exp of the access token, and its
\* refresh_token_expires_at is not after the expires of the issuer's record
\* of the refresh token.
C29_ExpiriesNeverExtended ==
  \A sid \in DOMAIN sessions :
    /\ sessions[sid].access_token_expires_at <= Exp(sessions[sid].access_token)
    /\ sessions[sid].refresh_token \in DOMAIN refresh_tokens_store =>
         sessions[sid].refresh_token_expires_at
           <= refresh_tokens_store[sessions[sid].refresh_token].expires

\* A refresh of session sid fails in this step: the answer in flight is not a
\* 200 and refresh_all_sessions counts it as failed.
RefreshFails(sid) ==
  /\ hbPc = "await"
  /\ inflight # << >>
  /\ Head(inflight).sid = sid
  /\ Head(inflight).status # 200
  /\ stats'.failed = stats.failed + 1

Heads(I) ==
  {tok \in DOMAIN I.refresh_tokens_store :
     handle_refresh_token_grant(I, tok, now, FALSE).resp.status = 200}

RefreshSucceeds(sid) ==
  /\ hbPc = "await"
  /\ inflight # << >>
  /\ Head(inflight).sid = sid
  /\ Head(inflight).status = 200
  /\ stats'.refreshed = stats.refreshed + 1

\* C28: a session that exists before and after a step keeps user_id, scopes
\* and created_at; any of its other fields changes only in the step its
\* successful refresh is applied in; a failed refresh (a non-200 answer or no
\* answer) leaves the whole session as it was; and an id that comes into the
\* store is the fresh id of a session created in that step.
C28_SessionChangesOnlyByRefresh ==
  [][/\ \A sid \in DOMAIN sessions \cap DOMAIN sessions' :
          /\ sessions'[sid].user_id = sessions[sid].user_id
          /\ sessions'[sid].scopes = sessions[sid].scopes
          /\ sessions'[sid].created_at = sessions[sid].created_at
          /\ sessions'[sid] # sessions[sid] => RefreshSucceeds(sid)
          /\ RefreshFails(sid) => sessions'[sid] = sessions[sid]
     /\ \A sid \in DOMAIN sessions' \ DOMAIN sessions :
          /\ sid = nextSid
          /\ nextSid' = nextSid + 1
          /\ sessions'[sid].created_at = now
          /\ sessions'[sid].refresh_count = 0]_vars

\* C28's case: in one cycle the refresh of one session has failed, and the
\* session is as it was created, and the refresh of another has succeeded,
\* and that session carries the new pair and the time of the refresh.
C28_Witness ==
  \E failed, refreshed \in DOMAIN sessions :
    /\ \E k \in 1 .. Len(stats.errors) : stats.errors[k].sid = failed
    /\ sessions[failed].refresh_count = 0
    /\ sessions[failed].last_refreshed_at = Never
    /\ sessions[failed].access_token.iat = sessions[failed].created_at
    /\ stats.refreshed > 0
    /\ sessions[refreshed].refresh_count = 1
    /\ sessions[refreshed].last_refreshed_at > sessions[refreshed].created_at
    /\ sessions[refreshed].access_token.iat = sessions[refreshed].last_refreshed_at

\* C23: a refresh that is cancelled while its request is in flight is counted
\* in the cycle's failed, with an error entry for its session.
C23_CancelledRefreshCounted ==
  [][hbCancel = "requested" /\ hbCancel' = "delivered" /\ hbPc = "await" =>
       /\ stats'.failed = stats.failed + 1
       /\ \E k \in 1 .. Len(stats'.errors) : stats'.errors[k].sid = Head(hbQueue)]_vars

\* C24: once the heartbeat task is cancelled it starts no new cycle and posts
\* no new refresh request, and changes no session; the cancellation ends the
\* task, from its sleep and from the middle of a cycle alike, and a task that
\* has ended stays ended.
C24_ShutdownStopsHeartbeat ==
  /\ [][hbCancel # "none" =>
          /\ ~(hbPc # "await" /\ hbPc' = "await")
          /\ hbSnap' = hbSnap
          /\ hbAttempted' = hbAttempted
          /\ resp'.op # "refresh"
          /\ sessions' = sessions
          /\ hbPc = "done" => hbPc' = "done"]_vars
  /\ [](hbCancel = "delivered" => hbPc = "done" /\ inflight = << >>)
  /\ (hbCancel = "requested") ~> (hbPc = "done")

\* C24's case: the heartbeat was cancelled in the middle of a cycle, with one
\* session's refresh in flight and another session not yet refreshed, and the
\* task has ended.
C24_Witness ==
  /\ hbCancel = "delivered"
  /\ hbPc = "done"
  /\ hbAttempted # << >>
  /\ Len(hbAttempted) < Len(hbSnap)
  /\ stats.refreshed + stats.failed < Len(hbAttempted)

\* C25: while it is not shut down the heartbeat task is alive, sleeping or in
\* a cycle, and after a cycle in which refreshes failed, with time left for
\* another interval, another cycle starts unless the server is shut down.
C25_FailuresNeverStopHeartbeat ==
  /\ [](hbCancel = "none" => hbPc \in {"sleep", "await"})
  /\ (stats.failed > 0 /\ hbPc # "await" /\ hbCancel = "none" /\ ticks < MaxLifeTicks)
       ~> (hbPc = "await" \/ hbCancel # "none")

\* C25's case: the second cycle is running, and a session created before the
\* first cycle has not been refreshed: its refresh failed in the first cycle.
C25_Witness ==
  /\ ticks = 2
  /\ hbPc = "await"
  /\ hbCancel = "none"
  /\ \E sid \in DOMAIN sessions :
       /\ sessions[sid].created_at = 0
       /\ sessions[sid].refresh_count = 0
       /\ sid \in {hbSnap[k] : k \in 1 .. Len(hbSnap)}

\* C30: when the answer to a successful refresh carries no new refresh token
\* (the issuer does not rotate: the token it names is the one presented), the
\* session's refresh token and refresh_token_expires_at stay as they were,
\* and its access token, access_token_expires_at, refresh_count and
\* last_refreshed_at are updated.
C30_UnrotatedRefreshKeepsRefreshToken ==
  [][\A sid \in DOMAIN sessions :
       (/\ ~rotate
        /\ RefreshSucceeds(sid)
        /\ Head(inflight).refresh_token = sessions[sid].refresh_token)
       => /\ sessions'[sid].refresh_token = sessions[sid].refresh_token
          /\ sessions'[sid].refresh_token_expires_at = sessions[sid].refresh_token_expires_at
          /\ sessions'[sid].access_token = Head(inflight).access_token
          /\ sessions'[sid].access_token_expires_at = now + Head(inflight).expires_in
          /\ sessions'[sid].refresh_count = sessions[sid].refresh_count + 1
          /\ sessions'[sid].last_refreshed_at = now]_vars

\* A grant was asked of POST /token in this step and failed.
GrantFails == resp'.op \in {"token", "code", "refresh"} /\ resp'.status # 200

userinfo(tok, t) ==
  IF tok = NoToken THEN 401
  ELSE IF ~verify_token(tok, t) THEN 401
  ELSE IF tok.sub \notin Usernames THEN 404
  ELSE 200

\* C32: neither kind of token is accepted in place of the other: the refresh
\* grant refuses every access token presented as a refresh token, and the
\* Services API and /userinfo answer 401 to every refresh token presented as
\* a bearer token.
C32_TokenKindsNotInterchangeable ==
  \A tok \in returned :
    /\ tok.typ = "access" =>
         handle_refresh_token_grant(Issuer, tok, now, FALSE).resp.status = 401
    /\ tok.typ = "refresh" =>
         /\ \A tool \in DOMAIN TOOL_SCOPE_REQUIREMENTS : services_status(tok, tool, now) = 401
         /\ userinfo(tok, now) = 401

\* The heartbeat wakes and refresh_all_sessions takes its snapshot in this step.
CycleStarts == hbPc = "sleep" /\ (hbPc' = "await" \/ hbSleepStart' # hbSleepStart)

\* C33: a session leaves the store only in a step that is a delete and
\* nothing else (the heartbeat and the issuer stand still, the clock does not
\* move, no other session goes); every cycle snapshots every session in the
\* store, whatever the state of its chain, and ends only after it has posted
\* a refresh for each session of its snapshot.
C33_SessionsLeaveOnlyByDelete ==
  [][/\ \A sid \in DOMAIN sessions \ DOMAIN sessions' :
          /\ UNCHANGED <<hbVars, issuerData, now>>
          /\ resp' = NoResponse
          /\ DOMAIN sessions' = DOMAIN sessions \ {sid}
     /\ CycleStarts => hbSnap' = SortedSeq(DOMAIN sessions)
     /\ hbPc = "await" /\ hbPc' = "sleep" => hbAttempted = hbSnap]_vars

\* C33's case: the answer to a session's first refresh was lost, so that the
\* issuer holds its refresh token revoked; another session has been deleted;
\* and the second cycle has snapshotted the dead session and posted its
\* refresh again.
C33_Witness ==
  /\ ticks = 2
  /\ nextSid - 1 > Cardinality(DOMAIN sessions)
  /\ \E sid \in DOMAIN sessions :
       /\ sessions[sid].created_at = 0
       /\ sessions[sid].refresh_count = 0
       /\ sessions[sid].refresh_token \in DOMAIN refresh_tokens_store
       /\ refresh_tokens_store[sessions[sid].refresh_token].revoked
       /\ \E k \in 1 .. Len(hbAttempted) : hbAttempted[k] = sid
       /\ \E k \in 1 .. Len(stats.errors) : stats.errors[k].sid = sid

\* C34: while no refresh of it is in flight, the refresh token of a session
\* made of a pair issued to it alone (the only session ever created) is the
\* non-revoked head of its chain at the issuer, whatever became of its
\* earlier refreshes.
C34_StoredTokenIsChainHead ==
  \A sid \in DOMAIN sessions :
    (nextSid = 2 /\ InFlight(sid) = {}) =>
      /\ sessions[sid].refresh_token \in DOMAIN refresh_tokens_store
      /\ ~refresh_tokens_store[sessions[sid].refresh_token].revoked

\* C35: in a cycle in which a refresh has succeeded, no session whose refresh
\* token the issuer held non-revoked when the cycle started has its refresh
\* answered with reuse-detected: one session's successful refresh does not
\* make another's fail.
C35_SessionsIndependentUnderRefresh ==
  [][(/\ resp'.op = "refresh"
      /\ ReuseDetected(resp')
      /\ stats'.refreshed > 0)
     => hbAttempted'[Len(hbAttempted')] \in hbThen'.revoked]_vars

\* C36: a session id that was handed out and is no longer in the store is in
\* the store in no later state, and get_session finds nothing under it,
\* whatever a cycle that snapshotted the session does afterwards.
C36_DeletedNeverResurrected ==
  [][\A sid \in 1 .. nextSid - 1 :
       sid \notin DOMAIN sessions =>
         /\ sid \notin DOMAIN sessions'
         /\ get_session(sessions', sid) = {}]_vars

\* C36's case: a session was deleted after the running cycle had snapshotted
\* it, and the 200 answer to its refresh is about to be applied.
C36_Witness ==
  /\ hbPc = "await"
  /\ inflight # << >>
  /\ Head(inflight).status = 200
  /\ Head(inflight).sid \in DOMAIN detached
  /\ Head(inflight).sid \notin DOMAIN sessions
  /\ get_session(sessions, Head(inflight).sid) = {}

\* C37: the active session id, when it is set, names a session in the store;
\* when it is not set, every tool call raises AuthenticationError and sends
\* nothing.
C37_ActiveSessionExists ==
  /\ active_session_id # NoSession => active_session_id \in DOMAIN sessions
  /\ active_session_id = NoSession =>
       \A caller \in SessionIds, tool \in ToolInputs :
         /\ capital_tool(caller, tool, now, 200).raised = "AuthenticationError"
         /\ capital_tool(caller, tool, now, 200).requests = 0

\* C37's case: a session has been deleted, no session is active although
\* sessions remain in the store, and a tool call raises AuthenticationError.
C37_Witness ==
  /\ nextSid - 1 > Cardinality(DOMAIN sessions)
  /\ DOMAIN sessions # {}
  /\ active_session_id = NoSession
  /\ capital_tool(1, "capital_get_assets", now, 200).raised = "AuthenticationError"

\* C38: the access token and the refresh TokenRecord a refresh grant mints
\* carry the subject and the scopes of the record presented, and every token
\* returned and every record stored carries the scopes of the user it names.
C38_RefreshKeepsPrivileges ==
  /\ [][RefreshAnswered /\ resp'.status = 200 =>
          LET presented == refresh_tokens_store[resp'.presented]
              minted == refresh_tokens_store'[resp'.refresh_token]
          IN /\ resp'.access_token.sub = presented.sub
             /\ resp'.access_token.scopes = presented.scopes
             /\ resp'.refresh_token.sub = presented.sub
             /\ resp'.refresh_token.scopes = presented.scopes
             /\ minted.sub = presented.sub
             /\ minted.scopes = presented.scopes]_vars
  /\ [](/\ \A tok \in returned :
             tok.sub \in Usernames /\ tok.scopes = USERS[tok.sub].scopes
        /\ \A tok \in DOMAIN refresh_tokens_store :
             /\ refresh_tokens_store[tok].sub = tok.sub
             /\ refresh_tokens_store[tok].scopes = USERS[tok.sub].scopes)

\* C38's case: limited_user's chain has been rotated, and the record and the
\* access token the refresh minted carry limited_user's one scope.
C38_Witness ==
  \E tok \in DOMAIN refresh_tokens_store :
    /\ refresh_tokens_store[tok].parent # NoParent
    /\ refresh_tokens_store[tok].sub = "limited_user"
    /\ refresh_tokens_store[tok].scopes = {"assets:read"}
    /\ resp.op = "refresh"
    /\ resp.refresh_token = tok
    /\ resp.access_token.scopes = {"assets:read"}
====
